---- MODULE Spec2Model ----
(***************************************************************************)
(* A model of atomvision/data/stem.py: the radius label masks              *)
(* (atomic_radius_mask), the mask-to-graph extraction                      *)
(* (atom_mask_to_graph, bond_vectors), the seeded train/val/test split     *)
(* (split_dataset) and the two dataset classes (Jarvis2dSTEMDataset,       *)
(* Jarvis2dSTEMGraphDataset).                                              *)
(*                                                                         *)
(* Real numbers are exact rationals <<n, d>> (d > 0, in lowest terms), so  *)
(* that a unit conversion is a multiplication the check can see.           *)
(***************************************************************************)
EXTENDS Integers, Sequences, FiniteSets, TLC

VARIABLES self, call, ret, hist

vars == <<self, call, ret, hist>>

(***************************************************************************)
(* Bounds of the model.                                                    *)
(***************************************************************************)
\* side of the (square) image grid, in pixels
GridSide == 3
\* most atoms handed to atomic_radius_mask
MaxAtoms == 2
\* most foreground pixels of a mask handed to atom_mask_to_graph
MaxForeground == 3
\* most rows of a data frame handed to split_dataset
MaxRows == 21

(***************************************************************************)
(* Rational arithmetic.                                                    *)
(***************************************************************************)
Abs(a) == IF a < 0 THEN -a ELSE a

RECURSIVE GCD(_, _)
GCD(a, b) == IF b = 0 THEN a ELSE GCD(b, a % b)

Rat(n, d) ==
    LET g == GCD(Abs(n), Abs(d))
        s == IF d < 0 THEN -1 ELSE 1
    IN  <<(s * n) \div g, (s * d) \div g>>

RInt(k) == <<k, 1>>
RAdd(x, y) == Rat(x[1] * y[2] + y[1] * x[2], x[2] * y[2])
RSub(x, y) == Rat(x[1] * y[2] - y[1] * x[2], x[2] * y[2])
RMul(x, y) == Rat(x[1] * y[1], x[2] * y[2])
RDiv(x, y) == Rat(x[1] * y[2], x[2] * y[1])
RLt(x, y) == x[1] * y[2] < y[1] * x[2]
RLe(x, y) == x[1] * y[2] <= y[1] * x[2]
RSq(x) == RMul(x, x)
RHalf == <<1, 2>>
RZero == <<0, 1>>

Min(a, b) == IF a < b THEN a ELSE b
SetMax(S) == CHOOSE x \in S : \A y \in S : y <= x

(***************************************************************************)
(* Images: a shape is <<rows, cols>>, a pixel <<r, c>> with 0-based        *)
(* indices, an image a function from the pixels of its shape.              *)
(***************************************************************************)
PixelsOf(shape) == (0 .. shape[1] - 1) \X (0 .. shape[2] - 1)
Shape == <<GridSide, GridSide>>
Pixels == PixelsOf(Shape)

(***************************************************************************)
(* Outcomes of a call: a returned value or a raised exception.             *)
(***************************************************************************)
Pending == [kind |-> "pending"]
Return(v) == [kind |-> "return", value |-> v]
Raise(e) == [kind |-> "raise", error |-> e]
\* no dataset object constructed yet
NoObject == [class |-> "none"]
\* a module-level function called on its own, with no dataset around
Standalone == [class |-> "function"]
NoHist == [kind |-> "none"]

(***************************************************************************)
(* RADII (stem.py 27-29): atomic number -> atomic radius in angstrom. The  *)
(* table is built from jarvis' chem_data; the model keeps three of its     *)
(* rows (H, C, S). Any other atomic number is a KeyError.                  *)
(***************************************************************************)
RADII == (1 :> <<53, 100>>) @@ (6 :> <<67, 100>>) @@ (16 :> <<88, 100>>)

\* skimage.draw.disk(center, radius, shape=shape): the pixels of the shape
\* strictly inside the circle, ((r - cr)/radius)^2 + ((c - cc)/radius)^2 < 1.
disk(center, radius, shape) ==
    {p \in PixelsOf(shape) :
        RLt(RAdd(RSq(RSub(RInt(p[1]), center[1])),
                 RSq(RSub(RInt(p[2]), center[2]))),
            RSq(radius))}

\* variant: RADII.get(n, 0), which gives an unknown species an empty footprint
radii_get_default(n) ==
    IF n \in DOMAIN RADII THEN Return(RADII[n]) ELSE Return(RZero)

\* RADII[n] (line 41): the radius of species n, a KeyError when n is no key
radii_lookup(n) ==
    IF n \in DOMAIN RADII THEN Return(RADII[n]) ELSE Raise("KeyError")

\* variant: an atom paints only the pixels still 0 (first write wins)
paint_unlabelled_only(labels, x, n, rad, px_scale, shape) ==
    LET rrcc == disk(x, RDiv(RMul(RHalf, rad), px_scale), shape)
    IN  [p \in PixelsOf(shape) |->
            IF p \in rrcc /\ labels[p] = 0 THEN n ELSE labels[p]]

\* the body of the loop of atomic_radius_mask for one atom whose species has
\* radius rad: rr, cc = draw.disk(tuple(x), 0.5 * rad / px_scale, shape);
\* labels[rr, cc] = n
paint(labels, x, n, rad, px_scale, shape) ==
    LET rrcc == disk(x, RDiv(RMul(RHalf, rad), px_scale), shape)
    IN  [p \in PixelsOf(shape) |-> IF p \in rrcc THEN n ELSE labels[p]]

\* for x, n in zip(X, N): ... from atom i on; zip stops at the shorter sequence
RECURSIVE mask_loop(_, _, _, _, _, _)
mask_loop(labels, X, N, i, px_scale, shape) ==
    IF i > Min(Len(X), Len(N))
    THEN Return(labels)
    ELSE LET rad == radii_lookup(N[i])
         IN  IF rad.kind = "raise"
             THEN rad
             ELSE mask_loop(paint(labels, X[i], N[i], rad.value, px_scale, shape),
                            X, N, i + 1, px_scale, shape)

\* atomic_radius_mask(shape, X, N, px_scale)
atomic_radius_mask(shape, X, N, px_scale) ==
    mask_loop([p \in PixelsOf(shape) |-> 0], X, N, 1, px_scale, shape)

(***************************************************************************)
(* atom_mask_to_graph (stem.py 174-217).                                   *)
(***************************************************************************)
\* a float that is not a number: numpy's 0 / 0
NaN == <<0, 0>>
IsNaN(x) == x[2] = 0
\* numpy's true division of floats, for a numerator >= 0
FloatDiv(x, y) == IF y[1] = 0 \/ IsNaN(x) \/ IsNaN(y) THEN NaN ELSE RDiv(x, y)

RECURSIVE SetSum(_, _)
SetSum(S, f) ==
    IF S = {} THEN 0
    ELSE LET x == CHOOSE y \in S : TRUE IN f[x] + SetSum(S \ {x}, f)

RECURSIVE RatSum(_, _)
RatSum(S, f) ==
    IF S = {} THEN RZero
    ELSE LET x == CHOOSE y \in S : TRUE IN RAdd(f[x], RatSum(S \ {x}, f))

RasterIndex(p, shape) == p[1] * shape[2] + p[2]
\* the neighbourhood of skimage.measure.label at full connectivity
Neighbours8(p, q) == p # q /\ Abs(p[1] - q[1]) <= 1 /\ Abs(p[2] - q[2]) <= 1

\* the pixels of value v reached from region through neighbouring pixels
RECURSIVE grow(_, _, _, _)
grow(label, v, region, shape) ==
    LET more == {q \in PixelsOf(shape) \ region :
                    label[q] = v /\ \E p \in region : Neighbours8(p, q)}
    IN  IF more = {} THEN region ELSE grow(label, v, region \cup more, shape)

RECURSIVE label_from(_, _, _, _)
label_from(label, shape, done, regions) ==
    LET rest == {p \in PixelsOf(shape) : label[p] # 0 /\ p \notin done}
    IN  IF rest = {} THEN regions
        ELSE LET seed == CHOOSE p \in rest : \A q \in rest :
                            RasterIndex(p, shape) <= RasterIndex(q, shape)
                 region == grow(label, label[seed], {seed}, shape)
             IN  label_from(label, shape, done \cup region,
                            Append(regions, region))

\* measure.label(label) with its default (full) connectivity: the connected
\* regions of equal non-zero value, numbered 1.. in raster order of their
\* first pixel; region i is the set of pixels labelled i
measure_label(label, shape) == label_from(label, shape, {}, <<>>)

\* image.max()
image_max(image) == SetMax({image[p] : p \in DOMAIN image})

\* image / image.max(): numpy divides by a zero maximum without an error, and
\* 0 / 0 is NaN
normalize(image) ==
    [p \in DOMAIN image |-> FloatDiv(RInt(image[p]), RInt(image_max(image)))]

\* a multiple coef * sqrt(4 * area / pi) of the diameter of the disk of the
\* given area (the square root is kept symbolic)
equivalent_diameter(area) == [coef |-> RInt(1), area |-> area]
SurdTimes(k, s) == [s EXCEPT !.coef = RMul(k, s.coef)]

\* one row of measure.regionprops_table for region i of rlab
region_row(i, region, intensity) ==
    LET n == Cardinality(region)
        rows == [p \in region |-> p[1]]
        cols == [p \in region |-> p[2]]
        nan == \E p \in region : IsNaN(intensity[p])
        vals == {intensity[p] : p \in region}
    IN  [label |-> i,
         centroid0 |-> Rat(SetSum(region, rows), n),
         centroid1 |-> Rat(SetSum(region, cols), n),
         equivalent_diameter |-> equivalent_diameter(n),
         min_intensity |-> IF nan THEN NaN
                           ELSE CHOOSE v \in vals : \A w \in vals : RLe(v, w),
         mean_intensity |-> IF nan THEN NaN
                            ELSE RDiv(RatSum(region, intensity), RInt(n)),
         max_intensity |-> IF nan THEN NaN
                           ELSE CHOOSE v \in vals : \A w \in vals : RLe(w, v)]

\* measure.regionprops_table(rlab, intensity_image, properties): one row per
\* region in ascending label order (no row for a mask without regions)
regionprops_table(rlab, intensity) ==
    [i \in 1 .. Len(rlab) |-> region_row(i, rlab[i], intensity)]

\* variant: a tree that cannot be built of no points
KDTree_nonempty(points) ==
    IF Len(points) = 0 THEN Raise("ValueError") ELSE Return(points)

\* KDTree(points): the tree of a set of points; a tree of no points is built
\* like any other
KDTree(points) == Return(points)

\* the squared distance of two points of the plane
Dist2(a, b) == RAdd(RSq(RSub(a[1], b[1])), RSq(RSub(a[2], b[2])))

\* variant: the pairs at distance less than r
query_pairs_strict(points, r) ==
    {e \in (0 .. Len(points) - 1) \X (0 .. Len(points) - 1) :
        e[1] < e[2] /\ RLt(Dist2(points[e[1] + 1], points[e[2] + 1]), RSq(r))}

\* nbrs.query_pairs(r): the pairs (i, j), i < j, of points at distance at
\* most r (indices from 0, as the rows of points)
query_pairs(points, r) ==
    {e \in (0 .. Len(points) - 1) \X (0 .. Len(points) - 1) :
        e[1] < e[2] /\ RLe(Dist2(points[e[1] + 1], points[e[2] + 1]), RSq(r))}

\* lines 205-210: one node per row of props, keyed by the row's index
graph_nodes(props, px_angstrom) ==
    [id \in 0 .. Len(props) - 1 |->
        [pos |-> <<RMul(props[id + 1].centroid1, px_angstrom),
                   RMul(props[id + 1].centroid0, px_angstrom), RZero>>,
         intensity |-> props[id + 1].mean_intensity,
         r |-> SurdTimes(RMul(RHalf, px_angstrom),
                         props[id + 1].equivalent_diameter)]]

\* line 213: the centroids in angstrom, points[i + 1] for row i
graph_points(props, px_angstrom) ==
    [i \in 1 .. Len(props) |->
        <<RMul(props[i].centroid1, px_angstrom),
          RMul(props[i].centroid0, px_angstrom)>>]

\* atom_mask_to_graph(label, image, px_angstrom, cutoff_angstrom): (g, props)
atom_mask_to_graph(label, shape, image, px_angstrom, cutoff_angstrom) ==
    LET rlab == measure_label(label, shape)
        props == regionprops_table(rlab, normalize(image))
        nbrs == KDTree(graph_points(props, px_angstrom))
    IN  IF nbrs.kind = "raise" THEN nbrs
        ELSE Return([g |-> [px_angstrom |-> px_angstrom,
                            nodes |-> graph_nodes(props, px_angstrom),
                            edges |-> query_pairs(nbrs.value, cutoff_angstrom)],
                     props |-> props])

(***************************************************************************)
(* SpecGraph: atom_mask_to_graph applied to bounded inputs.                *)
(***************************************************************************)
\* the binary masks of the grid with at most MaxForeground foreground pixels
GraphMasks ==
    {[p \in Pixels |-> IF p \in fg THEN 1 ELSE 0] :
        fg \in {f \in SUBSET Pixels : Cardinality(f) <= MaxForeground}}
\* intensity images: all zero, and a ramp 1, 2, ... in raster order
GraphImages ==
    {[p \in Pixels |-> 0], [p \in Pixels |-> 1 + RasterIndex(p, Shape)]}
\* pixel sizes (angstrom per pixel) and cutoffs (angstrom); 1/10 and 4 are
\* the defaults of atom_mask_to_graph
GraphScales == {<<1, 10>>, <<1, 1>>}
GraphCutoffs == {<<4, 1>>, <<2, 1>>}

GraphCalls ==
    {[op |-> "atom_mask_to_graph", shape |-> Shape, label |-> t[1],
      image |-> t[2], px_angstrom |-> t[3], cutoff_angstrom |-> t[4]] :
        t \in GraphMasks \X GraphImages \X GraphScales \X GraphCutoffs}

InitGraph ==
    /\ self = Standalone
    /\ hist = NoHist
    /\ ret = Pending
    /\ call \in GraphCalls

CallAtomMaskToGraph ==
    /\ call.op = "atom_mask_to_graph"
    /\ ret = Pending
    /\ ret' = atom_mask_to_graph(call.label, call.shape, call.image,
                                 call.px_angstrom, call.cutoff_angstrom)
    /\ UNCHANGED <<self, call, hist>>

NextGraph == CallAtomMaskToGraph

SpecGraph == InitGraph /\ [][NextGraph]_vars

GraphCalled == call.op = "atom_mask_to_graph" /\ ret # Pending
GraphReturned == call.op = "atom_mask_to_graph" /\ ret.kind = "return"

\* the foreground pixels of the mask of the current call
Foreground == {p \in PixelsOf(call.shape) : call.label[p] # 0}

\* the connected component of the mask that holds the pixels S
RECURSIVE ComponentOf(_)
ComponentOf(S) ==
    LET T == S \cup {q \in Foreground :
                        \E p \in S : /\ call.label[p] = call.label[q]
                                     /\ Abs(p[1] - q[1]) <= 1
                                     /\ Abs(p[2] - q[2]) <= 1}
    IN  IF T = S THEN S ELSE ComponentOf(T)

Components == {ComponentOf({p}) : p \in Foreground}

\* the centroid <<x, y>> = <<mean column, mean row>> of a set of pixels, in
\* angstrom at the pixel size of the current call
PhysicalCentroid(c) ==
    <<RMul(Rat(SetSum(c, [p \in c |-> p[2]]), Cardinality(c)), call.px_angstrom),
      RMul(Rat(SetSum(c, [p \in c |-> p[1]]), Cardinality(c)), call.px_angstrom)>>

NodeXY(g, id) == <<g.nodes[id].pos[1], g.nodes[id].pos[2]>>
WithinCutoff(g, u, v) ==
    RLe(Dist2(NodeXY(g, u), NodeXY(g, v)), RSq(call.cutoff_angstrom))
AtCutoff(g, u, v) ==
    Dist2(NodeXY(g, u), NodeXY(g, v)) = RSq(call.cutoff_angstrom)
Joined(g, u, v) == <<u, v>> \in g.edges \/ <<v, u>> \in g.edges

(***************************************************************************)
(* C3: atom_mask_to_graph on a mask without a foreground pixel returns a   *)
(* graph with no node and no edge; it does not end in an error.            *)
(***************************************************************************)
C3_EmptyMaskEmptyGraph ==
    (GraphCalled /\ Foreground = {}) =>
        /\ ret.kind = "return"
        /\ DOMAIN ret.value.g.nodes = {}
        /\ ret.value.g.edges = {}
        /\ Len(ret.value.props) = 0

C3_Witness ==
    /\ GraphReturned
    /\ Foreground = {}
    /\ image_max(call.image) > 0
    /\ DOMAIN ret.value.g.nodes = {}

(***************************************************************************)
(* C4: when the maximum of the intensity image is zero, the extraction     *)
(* ends in an EmptyIntensityError instead of returning a graph.            *)
(***************************************************************************)
C4_ZeroImageRaises ==
    (GraphCalled /\ image_max(call.image) = 0) =>
        ret = Raise("EmptyIntensityError")

IntOf(x) == x[1] \div x[2]

\* the Python slice s[a:b] of a list (a 1-based sequence here), 0 <= a
Slice(s, a, b) ==
    LET hi == Min(b, Len(s))
    IN  [i \in 1 .. (IF hi > a THEN hi - a ELSE 0) |-> s[a + i]]

\* variant: the test slice starts where the validation slice starts
split_dataset_test_from_val(N, val_frac, test_frac, shuf) ==
    LET n_val == IntOf(RMul(RInt(N), val_frac))
        n_test == IntOf(RMul(RInt(N), test_frac))
        n_train == N - (n_val + n_test)
    IN  [train_ids |-> Slice(shuf, 0, n_train),
         val_ids |-> Slice(shuf, n_train, n_train + n_val),
         test_ids |-> Slice(shuf, n_train, n_train + n_test)]

\* split_dataset(self, val_frac, test_frac) on a data frame of N rows, where
\* shuf is the permutation torch.randperm(N) gives after torch.manual_seed(0)
split_dataset(N, val_frac, test_frac, shuf) ==
    LET n_val == IntOf(RMul(RInt(N), val_frac))
        n_test == IntOf(RMul(RInt(N), test_frac))
        n_train == N - (n_val + n_test)
    IN  [train_ids |-> Slice(shuf, 0, n_train),
         val_ids |-> Slice(shuf, n_train, n_train + n_val),
         test_ids |-> Slice(shuf, n_train + n_val, n_train + n_val + n_test)]

\* the default val_frac and test_frac of split_dataset
DefaultFrac == <<1, 10>>

(***************************************************************************)
(* SpecSplit: split_dataset applied to data frames of 1 .. MaxRows rows.   *)
(* The seeded permutation is one fixed permutation of 0 .. N-1 that the    *)
(* source does not spell out; the model draws it from the permutations     *)
(* i |-> (a * i + b) % N.                                                  *)
(***************************************************************************)
SeededPermutations(N) ==
    {[i \in 1 .. N |-> (a * (i - 1) + b) % N] :
        <<a, b>> \in {t \in (1 .. N) \X (0 .. N - 1) : GCD(t[1], N) = 1}}

SplitCalls ==
    UNION {{[op |-> "split_dataset", N |-> N, val_frac |-> DefaultFrac,
             test_frac |-> DefaultFrac, shuf |-> shuf] :
                shuf \in SeededPermutations(N)} : N \in 1 .. MaxRows}

InitSplit ==
    /\ self = Standalone
    /\ hist = NoHist
    /\ ret = Pending
    /\ call \in SplitCalls

CallSplitDataset ==
    /\ call.op = "split_dataset"
    /\ ret = Pending
    /\ ret' = Return(split_dataset(call.N, call.val_frac, call.test_frac,
                                   call.shuf))
    /\ UNCHANGED <<self, call, hist>>

NextSplit == CallSplitDataset

SpecSplit == InitSplit /\ [][NextSplit]_vars

Range(q) == {q[i] : i \in 1 .. Len(q)}
NoRepeat(q) == Cardinality(Range(q)) = Len(q)

(***************************************************************************)
(* C1: for a data frame of N >= 1 rows, split_dataset with val_frac =      *)
(* test_frac = 0.1 returns train_ids, val_ids and test_ids that are        *)
(* pairwise disjoint, whose union is {0, ..., N-1}, with                   *)
(* |val| = |test| = floor(N / 10) and |train| = N - |val| - |test|.        *)
(***************************************************************************)
C1_SplitPartitions ==
    (call.op = "split_dataset" /\ ret.kind = "return") =>
        LET train == ret.value.train_ids
            val == ret.value.val_ids
            test == ret.value.test_ids
        IN  /\ NoRepeat(train) /\ NoRepeat(val) /\ NoRepeat(test)
            /\ Range(train) \cap Range(val) = {}
            /\ Range(train) \cap Range(test) = {}
            /\ Range(val) \cap Range(test) = {}
            /\ Range(train) \cup Range(val) \cup Range(test) = 0 .. call.N - 1
            /\ Len(val) = call.N \div 10
            /\ Len(test) = call.N \div 10
            /\ Len(train) = call.N - Len(val) - Len(test)

\* a split with two validation and two test rows
C1_Witness ==
    /\ call.op = "split_dataset"
    /\ ret.kind = "return"
    /\ Len(ret.value.val_ids) = 2
    /\ Len(ret.value.test_ids) = 2
    /\ Len(ret.value.train_ids) = call.N - 4

(***************************************************************************)
(* The data source and the image simulator, both outside stem.py.          *)
(***************************************************************************)
\* Python's None, and a present optional value
None == <<>>
Some(x) == <<x>>

\* the rows of image_data: a structure id, a crystal system and the atoms
\* (x, y in angstrom, atomic number Z). The second structure holds a species
\* that is no key of RADII, the third holds no atom.
ImageData ==
    << [jid |-> "JVASP-1", crys |-> "hexagonal",
        atoms |-> << [x |-> RZero, y |-> RZero, Z |-> 1],
                     [x |-> <<1, 5>>, y |-> <<1, 10>>, Z |-> 16] >>],
       [jid |-> "JVASP-2", crys |-> "cubic",
        atoms |-> << [x |-> <<1, 10>>, y |-> <<1, 10>>, Z |-> 6],
                     [x |-> <<1, 5>>, y |-> RZero, Z |-> 119] >>],
       [jid |-> "JVASP-3", crys |-> "cubic", atoms |-> << >>] >>

\* a rotation by a multiple of 90 degrees about the origin
Rotate(x, y, rot) ==
    CASE rot = 0 -> <<x, y>>
      [] rot = 90 -> <<RSub(RZero, y), x>>
      [] rot = -90 -> <<y, RSub(RZero, x)>>

Floor(x) == x[1] \div x[2]

\* STEMConv.simulate_surface(a, px_scale, eps, rot, shift): the image, the
\* delta label, the atoms' pixel positions and their atomic numbers. Each atom
\* is rotated, shifted and scaled to pixels; it lights the pixel it falls in.
simulate_surface(atoms, px_scale, rot, shift, shape) ==
    LET pos == [i \in 1 .. Len(atoms) |->
                    LET xy == Rotate(atoms[i].x, atoms[i].y, rot)
                    IN  <<RDiv(RAdd(xy[1], shift[1]), px_scale),
                          RDiv(RAdd(xy[2], shift[2]), px_scale)>>]
        at(p) == {i \in 1 .. Len(atoms) :
                    Floor(pos[i][1]) = p[1] /\ Floor(pos[i][2]) = p[2]}
    IN  [image |-> [p \in PixelsOf(shape) |->
                        SetSum(at(p), [i \in at(p) |-> atoms[i].Z])],
         label |-> [p \in PixelsOf(shape) |->
                        IF at(p) = {} THEN 0 ELSE atoms[SetMax(at(p))].Z],
         pos |-> pos,
         nb |-> [i \in 1 .. Len(atoms) |-> atoms[i].Z]]

(***************************************************************************)
(* Jarvis2dSTEMDataset and Jarvis2dSTEMGraphDataset (stem.py 59-171 and    *)
(* 227-293). A constructor or method gives [obj, out, ...]: the object     *)
(* after the call and the call's outcome.                                  *)
(***************************************************************************)
LABEL_MODES == {"delta", "radius"}

\* variant: a constructor without the label_mode check of lines 84-85
Dataset_init_unchecked(a, shuf) ==
    LET ids == split_dataset(Len(a.image_data), DefaultFrac, DefaultFrac, shuf)
    IN  [obj |-> [class |-> "Jarvis2dSTEMDataset",
                  px_scale |-> a.px_scale,
                  label_mode |-> a.label_mode,
                  rotation_degrees |-> a.rotation_degrees,
                  shift_angstrom |-> a.shift_angstrom,
                  zoom_pct |-> a.zoom_pct,
                  df |-> a.image_data,
                  train_ids |-> ids.train_ids,
                  val_ids |-> ids.val_ids,
                  test_ids |-> ids.test_ids],
         out |-> Return(None)]

\* Jarvis2dSTEMDataset.__init__; shuf is the seeded permutation of the split
Dataset_init(a, shuf) ==
    IF a.label_mode \notin LABEL_MODES
    THEN [obj |-> NoObject, out |-> Raise("NotImplementedError")]
    ELSE LET ids == split_dataset(Len(a.image_data), DefaultFrac, DefaultFrac,
                                  shuf)
         IN  [obj |-> [class |-> "Jarvis2dSTEMDataset",
                       px_scale |-> a.px_scale,
                       label_mode |-> a.label_mode,
                       rotation_degrees |-> a.rotation_degrees,
                       shift_angstrom |-> a.shift_angstrom,
                       zoom_pct |-> a.zoom_pct,
                       df |-> a.image_data,
                       train_ids |-> ids.train_ids,
                       val_ids |-> ids.val_ids,
                       test_ids |-> ids.test_ids],
              out |-> Return(None)]

\* Jarvis2dSTEMGraphDataset.__init__: super().__init__ with px_scale,
\* label_mode and image_data alone, then the classifier and the debug flag
GraphDataset_init(a, shuf) ==
    LET base == Dataset_init([a EXCEPT !.rotation_degrees = None,
                                       !.shift_angstrom = None,
                                       !.zoom_pct = None], shuf)
    IN  IF base.out.kind = "raise" THEN base
        ELSE [obj |-> [class |-> "Jarvis2dSTEMGraphDataset",
                       px_scale |-> base.obj.px_scale,
                       label_mode |-> base.obj.label_mode,
                       rotation_degrees |-> base.obj.rotation_degrees,
                       shift_angstrom |-> base.obj.shift_angstrom,
                       zoom_pct |-> base.obj.zoom_pct,
                       df |-> base.obj.df,
                       train_ids |-> base.obj.train_ids,
                       val_ids |-> base.obj.val_ids,
                       test_ids |-> base.obj.test_ids,
                       pixel_classifier |-> a.pixel_classifier,
                       debug |-> a.debug],
              out |-> Return(None)]

\* variant: the zoom is drawn whether or not zoom_pct is None
augment_zoom_unguarded(s, d) ==
    [rot |-> IF s.rotation_degrees # None
             THEN d.rot * s.rotation_degrees[1] ELSE 0,
     shift |-> IF s.shift_angstrom # None
               THEN <<RMul(RInt(d.shift_x), s.shift_angstrom[1]),
                      RMul(RInt(d.shift_y), s.shift_angstrom[1])>>
               ELSE <<RZero, RZero>>,
     px_scale |-> RMul(s.px_scale,
                       RAdd(RInt(1),
                            RMul(RInt(d.zoom),
                                 Rat(IF s.zoom_pct # None THEN s.zoom_pct[1]
                                     ELSE 50, 100)))),
     drawn |-> {n \in {"rotation_degrees", "shift_angstrom"} : s[n] # None}
                \cup {"zoom_pct"}]

\* lines 133-150: the defaults, and one draw for each augmentation that is
\* not None. d holds the draws: np.random.uniform(-b, b) is d.<name> * b with
\* d.<name> in {-1, 1}. zoom_pct is a whole number of percent.
augment(s, d) ==
    [rot |-> IF s.rotation_degrees # None
             THEN d.rot * s.rotation_degrees[1] ELSE 0,
     shift |-> IF s.shift_angstrom # None
               THEN <<RMul(RInt(d.shift_x), s.shift_angstrom[1]),
                      RMul(RInt(d.shift_y), s.shift_angstrom[1])>>
               ELSE <<RZero, RZero>>,
     px_scale |-> IF s.zoom_pct # None
                  THEN RMul(s.px_scale,
                            RAdd(RInt(1),
                                 RMul(RInt(d.zoom), Rat(s.zoom_pct[1], 100))))
                  ELSE s.px_scale,
     drawn |-> {n \in {"rotation_degrees", "shift_angstrom", "zoom_pct"} :
                    s[n] # None}]

\* label > 0
Threshold(label) == [p \in DOMAIN label |-> IF label[p] > 0 THEN 1 ELSE 0]

\* lines 162-171: the sample, or the error of the label step; sim and drawn
\* record the arguments of the simulator call and the augmentations drawn
sample_record(row, aug, sim, label) ==
    [out |-> IF label.kind = "raise" THEN label
             ELSE Return([image |-> sim.image,
                          label |-> Threshold(label.value),
                          id |-> row.jid,
                          px_scale |-> aug.px_scale,
                          crys |-> row.crys]),
     sim |-> Some([px_scale |-> aug.px_scale, rot |-> aug.rot,
                   shift |-> aug.shift]),
     drawn |-> aug.drawn]

\* lines 156-157: the label is the simulator's, or the radius mask of the
\* simulator's atom positions and numbers at the local px_scale
sample_labelled(s, row, aug, sim) ==
    sample_record(row, aug, sim,
                  IF s.label_mode = "radius"
                  THEN atomic_radius_mask(Shape, sim.pos, sim.nb, aug.px_scale)
                  ELSE Return(sim.label))

\* lines 152-154: the simulator is called with the augmented values
sample_simulated(s, row, aug) ==
    sample_labelled(s, row, aug,
                    simulate_surface(row.atoms, aug.px_scale, aug.rot,
                                     aug.shift, Shape))

\* lines 129-171, the body of Jarvis2dSTEMDataset.__getitem__(idx) under the
\* draws d; self.df.iloc[idx] is an IndexError past the last row
Dataset_sample(s, idx, d) ==
    IF idx \notin 0 .. Len(s.df) - 1
    THEN [out |-> Raise("IndexError"), sim |-> None, drawn |-> {}]
    ELSE sample_simulated(s, s.df[idx + 1], augment(s, d))

\* variant: the zoomed px_scale is stored in self.px_scale
getitem_result_zoom_kept(s, r) ==
    [obj |-> IF r.out.kind = "return"
             THEN [s EXCEPT !.px_scale = r.out.value.px_scale] ELSE s,
     out |-> r.out, sim |-> r.sim, drawn |-> r.drawn, props |-> None]

\* the object and the outcome __getitem__ leaves: the method assigns no
\* attribute of self (px_scale *= ... is on a local)
getitem_result(s, r) ==
    [obj |-> s, out |-> r.out, sim |-> r.sim, drawn |-> r.drawn,
     props |-> None]

\* Jarvis2dSTEMDataset.__getitem__
Dataset_getitem(s, idx, d) == getitem_result(s, Dataset_sample(s, idx, d))

\* the defaults of atom_mask_to_graph, which __getitem__ leaves in place
DefaultPxAngstrom == <<1, 10>>
DefaultCutoffAngstrom == <<4, 1>>

\* self.pixel_classifier(image): an injected callable; the model knows one
\* that marks the pixels of positive intensity. Calling None is a TypeError.
pixel_classifier_call(classifier, image) ==
    IF classifier = None THEN Raise("TypeError")
    ELSE Return([p \in DOMAIN image |-> IF image[p] > 0 THEN 1 ELSE 0])

\* bond_vectors(edges): {"r": v - u} for u = edges.src["pos"], v = edges.dst["pos"]
bond_vectors(u, v) == [k \in 1 .. 3 |-> RSub(v[k], u[k])]

\* dgl.from_networkx(g, node_attrs) and g.apply_edges(bond_vectors): the
\* nodes with their attributes, each edge of the undirected graph in both
\* directions, and r = bond_vectors on each directed edge
from_networkx(g) ==
    LET directed == g.edges \cup {<<e[2], e[1]>> : e \in g.edges}
    IN  [ndata |-> g.nodes,
         edata |-> [e \in directed |->
                        [r |-> bond_vectors(g.nodes[e[1]].pos,
                                            g.nodes[e[2]].pos)]]]

\* lines 283-293: the edge vectors times self.px_scale, the node features,
\* and the graph attached to the sample
graph_sample(s, base, props, g0) ==
    [obj |-> base.obj,
     out |-> Return([image |-> base.out.value.image,
                     label |-> base.out.value.label,
                     id |-> base.out.value.id,
                     px_scale |-> base.out.value.px_scale,
                     crys |-> base.out.value.crys,
                     g |-> [ndata |->
                                [id \in DOMAIN g0.ndata |->
                                    [pos |-> g0.ndata[id].pos,
                                     intensity |-> g0.ndata[id].intensity,
                                     r |-> g0.ndata[id].r,
                                     atom_features |->
                                        <<g0.ndata[id].intensity,
                                          g0.ndata[id].r>>]],
                            edata |->
                                [e \in DOMAIN g0.edata |->
                                    [r |-> [k \in 1 .. 3 |->
                                              RMul(g0.edata[e].r[k],
                                                   s.px_scale)]]]]]),
     sim |-> base.sim, drawn |-> base.drawn, props |-> Some(props)]

\* lines 276-281
graph_extracted(s, base, gp) ==
    IF gp.kind = "raise" THEN [base EXCEPT !.out = gp]
    ELSE graph_sample(s, base, gp.value.props, from_networkx(gp.value.g))

\* line 276: atom_mask_to_graph(predicted_label, sample["image"])
graph_predicted(s, base, predicted_label) ==
    IF predicted_label.kind = "raise"
    THEN [base EXCEPT !.out = predicted_label]
    ELSE graph_extracted(s, base,
                         atom_mask_to_graph(predicted_label.value, Shape,
                                            base.out.value.image,
                                            DefaultPxAngstrom,
                                            DefaultCutoffAngstrom))

\* lines 269-274: the sample of the base class, then the mask: the sample's
\* label under debug, the classifier's prediction otherwise
graph_of_sample(s, base) ==
    IF base.out.kind = "raise" THEN base
    ELSE graph_predicted(s, base,
                         IF s.debug THEN Return(base.out.value.label)
                         ELSE pixel_classifier_call(s.pixel_classifier,
                                                    base.out.value.image))

\* Jarvis2dSTEMGraphDataset.__getitem__ (lines 267-293)
GraphDataset_getitem(s, idx, d) == graph_of_sample(s, Dataset_getitem(s, idx, d))

(***************************************************************************)
(* Spec: a dataset object is constructed and then indexed, any number of   *)
(* times, by any index. hist keeps the outcome of one earlier access.      *)
(***************************************************************************)
PxScales == {<<1, 10>>, <<1, 5>>}
LabelModes == {"delta", "radius", "gaussian"}
Rotations == {None, Some(90)}
Shifts == {None, Some(<<1, 10>>)}
Zooms == {None, Some(50)}
Classifiers == {None, Some("threshold")}

DatasetArgs ==
    [class : {"Jarvis2dSTEMDataset"}, px_scale : PxScales,
     label_mode : LabelModes, image_data : {ImageData},
     rotation_degrees : Rotations, shift_angstrom : Shifts, zoom_pct : Zooms,
     pixel_classifier : {None}, debug : {FALSE}]

GraphDatasetArgs ==
    [class : {"Jarvis2dSTEMGraphDataset"}, px_scale : PxScales,
     label_mode : LabelModes, image_data : {ImageData},
     rotation_degrees : {None}, shift_angstrom : {None}, zoom_pct : {None},
     pixel_classifier : Classifiers, debug : BOOLEAN]

\* the draws of one access, each the sign of a uniform draw at an end of its
\* interval: three of the sixteen combinations
Draws ==
    {[rot |-> -1, shift_x |-> -1, shift_y |-> -1, zoom |-> -1],
     [rot |-> 1, shift_x |-> 1, shift_y |-> 1, zoom |-> 1],
     [rot |-> 1, shift_x |-> -1, shift_y |-> 1, zoom |-> -1]}

Init ==
    /\ self = NoObject
    /\ call = [op |-> "none"]
    /\ ret = Pending
    /\ hist = NoHist

\* the state after a constructor call with arguments a that gave r
Constructed(a, r) ==
    /\ self' = r.obj
    /\ ret' = r.out
    /\ call' = [op |-> "__init__", args |-> a]

Construct ==
    /\ self = NoObject
    /\ \E a \in DatasetArgs \cup GraphDatasetArgs :
       \E shuf \in {q \in SeededPermutations(Len(a.image_data)) : q[1] = 0} :
            Constructed(a, IF a.class = "Jarvis2dSTEMGraphDataset"
                           THEN GraphDataset_init(a, shuf)
                           ELSE Dataset_init(a, shuf))
    /\ UNCHANGED hist

IsDataset(s) ==
    s.class \in {"Jarvis2dSTEMDataset", "Jarvis2dSTEMGraphDataset"}

\* the state after an access to idx that gave r
Accessed(idx, keep, r) ==
    /\ self' = r.obj
    /\ ret' = r.out
    /\ call' = [op |-> "__getitem__", idx |-> idx, kept |-> keep,
                sim |-> r.sim, drawn |-> r.drawn, props |-> r.props]
    /\ hist' = IF keep THEN [kind |-> "access", idx |-> idx, out |-> r.out]
               ELSE hist

GetItem ==
    /\ IsDataset(self)
    /\ \E idx \in 0 .. Len(self.df), d \in Draws, keep \in BOOLEAN :
            Accessed(idx, keep,
                     IF self.class = "Jarvis2dSTEMGraphDataset"
                     THEN GraphDataset_getitem(self, idx, d)
                     ELSE Dataset_getitem(self, idx, d))

Next == Construct \/ GetItem

Spec == Init /\ [][Next]_vars

Accessing == call.op = "__getitem__"
AugmentationNames == {"rotation_degrees", "shift_angstrom", "zoom_pct"}
AugmentationOff ==
    /\ self # NoObject
    /\ \A n \in AugmentationNames : self[n] = None

(***************************************************************************)
(* C2: the pixel-to-angstrom conversion is applied exactly once. On the    *)
(* graph of a sample every edge (u -> v) carries                           *)
(* r = (centroid_px(v) - centroid_px(u)) * px_scale, and every node's pos  *)
(* and r are the pixel centroid and the pixel equivalent radius times      *)
(* px_scale.                                                               *)
(***************************************************************************)
C2_ConvertedOnce ==
    (Accessing /\ ret.kind = "return" /\ call.props # None) =>
        LET g == ret.value.g
            props == call.props[1]
            px_scale == ret.value.px_scale
        IN  /\ \A e \in DOMAIN g.edata :
                g.edata[e].r =
                    <<RMul(RSub(props[e[2] + 1].centroid1,
                                props[e[1] + 1].centroid1), px_scale),
                      RMul(RSub(props[e[2] + 1].centroid0,
                                props[e[1] + 1].centroid0), px_scale),
                      RZero>>
            /\ \A id \in DOMAIN g.ndata :
                /\ g.ndata[id].pos =
                    <<RMul(props[id + 1].centroid1, px_scale),
                      RMul(props[id + 1].centroid0, px_scale), RZero>>
                /\ g.ndata[id].r =
                    SurdTimes(RMul(RHalf, px_scale),
                              props[id + 1].equivalent_diameter)

(***************************************************************************)
(* C6: a constructor call with a label_mode other than "delta" or "radius" *)
(* ends in an error and sets up no dataset state, so no dataset object     *)
(* with an unsupported label mode exists and none is ever indexed.         *)
(***************************************************************************)
C6_UnsupportedLabelModeFails ==
    /\ (call.op = "__init__" /\ call.args.label_mode \notin LABEL_MODES) =>
            (ret = Raise("NotImplementedError") /\ self = NoObject)
    /\ self # NoObject => self.label_mode \in LABEL_MODES
    /\ Accessing => self.label_mode \in LABEL_MODES

C6_Witness ==
    /\ call.op = "__init__"
    /\ call.args.class = "Jarvis2dSTEMGraphDataset"
    /\ call.args.label_mode = "gaussian"
    /\ ret = Raise("NotImplementedError")
    /\ self = NoObject

(***************************************************************************)
(* C9: an augmentation value is drawn only for a parameter that is not     *)
(* None; with rotation_degrees, shift_angstrom and zoom_pct all None the   *)
(* simulator is called with rotation 0, shift (0, 0) and the configured    *)
(* px_scale, and an access gives the outcome (image, label, px_scale) an   *)
(* earlier access to the same index gave.                                  *)
(***************************************************************************)
C9_NoAugmentationRepeats ==
    Accessing =>
        /\ call.sim # None =>
                call.drawn = {n \in AugmentationNames : self[n] # None}
        /\ (AugmentationOff /\ call.sim # None) =>
                call.sim[1] = [px_scale |-> self.px_scale, rot |-> 0,
                               shift |-> <<RZero, RZero>>]
        /\ (AugmentationOff /\ hist.kind = "access" /\ hist.idx = call.idx) =>
                hist.out = ret

\* a second access to an index, after an earlier one that hist kept, gives
\* the same sample
C9_Witness ==
    /\ Accessing
    /\ AugmentationOff
    /\ ~call.kept
    /\ hist.kind = "access"
    /\ hist.idx = call.idx
    /\ ret.kind = "return"
    /\ hist.out = ret
    /\ call.sim = Some([px_scale |-> self.px_scale, rot |-> 0,
                        shift |-> <<RZero, RZero>>])

(***************************************************************************)
(* C10: once constructed, the dataset object (px_scale, label_mode, the    *)
(* augmentation parameters, the data frame, the train/val/test index sets) *)
(* is the same after every step as before it: no access, successful or     *)
(* failing, with or without zoom, on either class, changes it.             *)
(***************************************************************************)
C10_AccessKeepsObject == [][self # NoObject => self' = self]_vars

\* an access that zoomed the pixel size, after a failed access to another
\* index that hist kept
C10_Witness ==
    /\ Accessing
    /\ ~call.kept
    /\ hist.kind = "access"
    /\ hist.out.kind = "raise"
    /\ hist.idx # call.idx
    /\ ret.kind = "return"
    /\ self.zoom_pct # None
    /\ ret.value.px_scale # self.px_scale

(***************************************************************************)
(* SpecMask: atomic_radius_mask applied to bounded inputs.                 *)
(***************************************************************************)
\* atom centres, in pixels: the pixel centres of the first two rows
MaskCentres == {<<RInt(p[1]), RInt(p[2])>> : p \in {q \in Pixels : q[1] <= 1}}
\* atomic numbers fed to the mask: two keys of RADII and one that is none
MaskSpecies == {1, 16, 119}
MaskScales == {<<1, 5>>, <<2, 5>>}

SeqsUpTo(S, n) == UNION {[1 .. k -> S] : k \in 0 .. n}

MaskCalls ==
    {[op |-> "atomic_radius_mask", shape |-> Shape, X |-> X, N |-> N,
      px_scale |-> s] :
        <<X, N, s>> \in {t \in SeqsUpTo(MaskCentres, MaxAtoms)
                                \X SeqsUpTo(MaskSpecies, MaxAtoms)
                                \X MaskScales : Len(t[1]) = Len(t[2])}}

InitMask ==
    /\ self = Standalone
    /\ hist = NoHist
    /\ ret = Pending
    /\ call \in MaskCalls

CallAtomicRadiusMask ==
    /\ call.op = "atomic_radius_mask"
    /\ ret = Pending
    /\ ret' = atomic_radius_mask(call.shape, call.X, call.N, call.px_scale)
    /\ UNCHANGED <<self, call, hist>>

NextMask == CallAtomicRadiusMask

SpecMask == InitMask /\ [][NextMask]_vars

Reverse(q) == [i \in 1 .. Len(q) |-> q[Len(q) + 1 - i]]
SetMin(S) == CHOOSE x \in S : \A y \in S : x <= y

\* the atoms of the current call whose footprint (the disk of radius
\* 0.5 * RADII[Z] / px_scale, clipped to the image) covers pixel p
Covering(p) ==
    {i \in 1 .. Len(call.X) :
        p \in disk(call.X[i],
                   RDiv(RMul(RHalf, RADII[call.N[i]]), call.px_scale),
                   call.shape)}

MaskReturned == call.op = "atomic_radius_mask" /\ ret.kind = "return"

(***************************************************************************)
(* C7: in the mask atomic_radius_mask returns, a pixel covered by at least *)
(* one atom's disk holds the atomic number of the last atom in input order *)
(* that covers it, and a pixel no disk covers holds 0; the same atoms in   *)
(* reversed order give every covered pixel the number of the atom that was *)
(* first in the original order (last in the reversed one).                 *)
(***************************************************************************)
C7_LastWriteWins ==
    MaskReturned =>
        LET rev == atomic_radius_mask(call.shape, Reverse(call.X),
                                      Reverse(call.N), call.px_scale)
        IN  \A p \in PixelsOf(call.shape) :
                IF Covering(p) = {}
                THEN ret.value[p] = 0 /\ rev.value[p] = 0
                ELSE /\ ret.value[p] = call.N[SetMax(Covering(p))]
                     /\ rev.value[p] = call.N[SetMin(Covering(p))]

\* two atoms of different species overlap, and the overlap holds the second
C7_Witness ==
    /\ MaskReturned
    /\ Len(call.X) = 2
    /\ call.N[1] # call.N[2]
    /\ \E p \in PixelsOf(call.shape) :
            Covering(p) = {1, 2} /\ ret.value[p] = call.N[2]

UnknownSpecies(N) == \E i \in 1 .. Len(N) : N[i] \notin DOMAIN RADII

\* the mask alone: an unknown species in the input ends the call in a KeyError
C5_MaskUnknownSpeciesRaises ==
    (call.op = "atomic_radius_mask" /\ ret # Pending /\ UnknownSpecies(call.N))
        => ret = Raise("KeyError")

(***************************************************************************)
(* SpecRadius: atomic_radius_mask called on its own or from __getitem__.   *)
(***************************************************************************)
InitRadius == InitMask \/ Init
NextRadius == NextMask \/ Next
SpecRadius == InitRadius /\ [][NextRadius]_vars

SpeciesOf(atoms) == [i \in 1 .. Len(atoms) |-> atoms[i].Z]

(***************************************************************************)
(* C5: when an atomic number of its input is no key of RADII,              *)
(* atomic_radius_mask ends in an error and returns no mask (none with the  *)
(* atom left out either), and in radius label mode __getitem__ of a        *)
(* structure with such an atom returns no sample.                          *)
(***************************************************************************)
C5_UnknownSpeciesFails ==
    /\ C5_MaskUnknownSpeciesRaises
    /\ (/\ Accessing
        /\ self.label_mode = "radius"
        /\ call.idx \in 0 .. Len(self.df) - 1
        /\ UnknownSpecies(SpeciesOf(self.df[call.idx + 1].atoms)))
            => ret = Raise("KeyError")

C5_Witness ==
    /\ Accessing
    /\ self.label_mode = "radius"
    /\ call.idx = 1
    /\ UnknownSpecies(SpeciesOf(self.df[call.idx + 1].atoms))
    /\ ret = Raise("KeyError")

====
